---------------------------- MODULE Spec2Model ----------------------------
(***************************************************************************)
(* gray-matter-es: front-matter extraction (matterImpl / parseMatter),     *)
(* excerpt, stringify and the module-level cache, as a state machine.      *)
(*                                                                         *)
(* Text is a sequence of characters; a character is a one-element TLA+     *)
(* string.  "" of the source is << >>.  Indices are 0-based as in the      *)
(* source and are converted where a sequence is subscripted.               *)
(***************************************************************************)
EXTENDS Integers, Sequences, FiniteSets, TLC

VARIABLES text, cache, res, seen

vars == <<text, cache, res, seen>>

-----------------------------------------------------------------------------
(* Characters and JavaScript string primitives                             *)

NL == "\n"
CR == "\r"
\* U+FEFF, one code unit
BOM == "BOM"

\* what \s and String.prototype.trim treat as white space
IsSpace(c) == c \in {" ", NL, CR, BOM}

\* what the multiline ^ of a RegExp accepts before it
IsLineTerminator(c) == c \in {NL, CR}

Min(a, b) == IF a < b THEN a ELSE b
Max(a, b) == IF a > b THEN a ELSE b

\* String.prototype.slice(from, to): negative indices count from the end
RelIndex(n, len) == IF n < 0 THEN Max(len + n, 0) ELSE Min(n, len)

Slice(s, from, to) ==
  LET a == RelIndex(from, Len(s))
      b == RelIndex(to, Len(s))
  IN  IF a >= b THEN << >> ELSE SubSeq(s, a + 1, b)

SliceFrom(s, from) == Slice(s, from, Len(s))

\* String.prototype.charAt: "" out of range
CharAt(s, i) == IF i >= 0 /\ i < Len(s) THEN <<s[i + 1]>> ELSE << >>

MatchAt(s, pat, i) ==
  /\ i + Len(pat) <= Len(s)
  /\ \A k \in 1..Len(pat) : s[i + k] = pat[k]

\* String.prototype.indexOf: first 0-based index, -1 when absent
IndexOf(s, pat) ==
  LET hits == {i \in 0..Len(s) : MatchAt(s, pat, i)}
  IN  IF hits = {} THEN -1 ELSE CHOOSE i \in hits : \A j \in hits : i <= j

\* String.prototype.search(/\r?\n/)
SearchLineBreak(s) ==
  LET hits == {i \in 0..(Len(s) - 1) :
                 \/ s[i + 1] = NL
                 \/ (s[i + 1] = CR /\ i + 2 <= Len(s) /\ s[i + 2] = NL)}
  IN  IF hits = {} THEN -1 ELSE CHOOSE i \in hits : \A j \in hits : i <= j

\* String.prototype.trim
RECURSIVE TrimStart(_)
TrimStart(s) ==
  IF s # << >> /\ IsSpace(Head(s)) THEN TrimStart(Tail(s)) ELSE s

RECURSIVE TrimEnd(_)
TrimEnd(s) ==
  IF s # << >> /\ IsSpace(s[Len(s)]) THEN TrimEnd(SubSeq(s, 1, Len(s) - 1)) ELSE s

Trim(s) == TrimEnd(TrimStart(s))

\* length of the longest run of characters satisfying a class, from 0-based p
RECURSIVE SpaceRun(_, _)
SpaceRun(s, p) ==
  IF p < Len(s) /\ IsSpace(s[p + 1]) THEN 1 + SpaceRun(s, p + 1) ELSE 0

RECURSIVE NonNLRun(_, _)
NonNLRun(s, p) ==
  IF p < Len(s) /\ s[p + 1] # NL THEN 1 + NonNLRun(s, p + 1) ELSE 0

\* end (exclusive) of the match of /^\s*#[^\n]+/m that starts at p, or -1.
\* \s* is greedy and '#' is no white space, so only the longest run can be
\* followed by '#'; [^\n]+ needs at least one character after the '#'.
CommentMatchEnd(s, p) ==
  LET bol == p = 0 \/ IsLineTerminator(s[p])
      h   == p + SpaceRun(s, p)
      n   == NonNLRun(s, h + 1)
  IN  IF bol /\ h < Len(s) /\ s[h + 1] = "#" /\ n >= 1 THEN h + 1 + n ELSE -1

\* str.replace(/^\s*#[^\n]+/gm, ""): scan left to right, drop each match
RECURSIVE StripFrom(_, _)
StripFrom(s, p) ==
  IF p >= Len(s) THEN << >>
  ELSE LET e == CommentMatchEnd(s, p)
       IN  IF e # -1 THEN StripFrom(s, e) ELSE <<s[p + 1]>> \o StripFrom(s, p + 1)

StripComments(s) == StripFrom(s, 0)

-----------------------------------------------------------------------------
(* Values: optional text, metadata mappings                                *)

\* an optional text: << >> is undefined, <<s>> is the text s
Undef == << >>
Some(s) == <<s>>
IsDef(o) == o # << >>
Get(o) == o[1]

\* the value of a metadata entry
VNull == [t |-> "null", v |-> << >>]
VStr(s) == [t |-> "string", v |-> s]

\* A parsed metadata value.  kind "map": an object, its entries in insertion
\* order.  kind "opaque": a value of the engine's library that is not followed
\* further (a scalar, a sequence); src is the text it was parsed from.
MapOf(ents) == [kind |-> "map", ents |-> ents, src |-> << >>]
Opaque(str) == [kind |-> "opaque", ents |-> << >>, src |-> str]
EmptyMap == MapOf(<< >>)

Entry(k, v) == [k |-> k, v |-> v]
EntrySet(d) == {d.ents[i] : i \in 1..Len(d.ents)}
Keys(d) == {d.ents[i].k : i \in 1..Len(d.ents)}

\* deep equality of two metadata values (toEqual): key order is immaterial
DataEq(d1, d2) ==
  /\ d1.kind = d2.kind
  /\ d1.src = d2.src
  /\ EntrySet(d1) = EntrySet(d2)

\* obj[key] on a metadata value: Undef or Some(value)
Prop(d, key) ==
  IF d.kind = "map" /\ key \in Keys(d)
  THEN <<(CHOOSE e \in EntrySet(d) : e.k = key).v>>
  ELSE << >>

\* { ...a, ...b }: b's values win, a's keys keep their place
RECURSIVE PutAll(_, _)
Put(ents, e) ==
  IF \E i \in 1..Len(ents) : ents[i].k = e.k
  THEN [i \in 1..Len(ents) |-> IF ents[i].k = e.k THEN e ELSE ents[i]]
  ELSE Append(ents, e)
PutAll(ents, more) ==
  IF more = << >> THEN ents ELSE PutAll(Put(ents, Head(more)), Tail(more))

\* (a variant of the merge in which the record's own values win)
SpreadKeepFirst(a, b) == MapOf(PutAll(b.ents, a.ents))

Spread(a, b) == MapOf(PutAll(a.ents, b.ents))

\* names of the built-in languages and of the keys the code reads
Yaml == <<"y", "a", "m", "l">>
Json == <<"j", "s", "o", "n">>
Javascript == <<"j", "a", "v", "a", "s", "c", "r", "i", "p", "t">>
Dashes == <<"-", "-", "-">>
ExcerptSeparatorKey ==
  <<"e", "x", "c", "e", "r", "p", "t", "_", "s", "e", "p", "a", "r", "a", "t", "o", "r">>

-----------------------------------------------------------------------------
(* The engines.  yaml.parse and json.parse hand the block to a library     *)
(* (@std/yaml parse, JSON.parse).  The library is followed on the          *)
(* documents below; a library result is                                    *)
(*   [t |-> "throw"], [t |-> "null"] or [t |-> "value", d |-> value].       *)

Thrown == [t |-> "throw", d |-> EmptyMap]
NullDoc == [t |-> "null", d |-> EmptyMap]
Value(d) == [t |-> "value", d |-> d]

Null4 == <<"n", "u", "l", "l">>
Quote == "\""
Backslash == "\\"

\* characters that end or structure a plain scalar
IsPlainChar(c) ==
  c \notin {"-", NL, CR, " ", "#", ":", "{", "}", "[", "]", ",", "'", Quote, Backslash, BOM}

IsPlain(s) == s # << >> /\ \A i \in 1..Len(s) : IsPlainChar(s[i])

RECURSIVE TrimBlanksStart(_)
TrimBlanksStart(s) ==
  IF s # << >> /\ Head(s) = " " THEN TrimBlanksStart(Tail(s)) ELSE s

RECURSIVE TrimBlanksEnd(_)
TrimBlanksEnd(s) ==
  IF s # << >> /\ s[Len(s)] = " "
  THEN TrimBlanksEnd(SubSeq(s, 1, Len(s) - 1)) ELSE s

\* the lines of a block; LF and CR both break a line
RECURSIVE SplitLines(_)
SplitLines(s) ==
  LET brk == {i \in 1..Len(s) : s[i] \in {NL, CR}}
  IN  IF brk = {} THEN <<s>>
      ELSE LET i == CHOOSE x \in brk : \A y \in brk : x <= y
           IN  <<SubSeq(s, 1, i - 1)>> \o SplitLines(SubSeq(s, i + 1, Len(s)))

\* lines that are neither blank nor (when comments count) a '#' comment
RECURSIVE KeepLines(_, _)
KeepLines(ls, comments) ==
  IF ls = << >> THEN << >>
  ELSE LET l == TrimBlanksStart(Head(ls))
           drop == l = << >> \/ (comments /\ Head(l) = "#")
       IN  (IF drop THEN << >> ELSE <<TrimBlanksEnd(Head(ls))>>)
             \o KeepLines(Tail(ls), comments)

\* a quoted scalar body with \n and \r escapes resolved
RECURSIVE Unescape(_)
Unescape(s) ==
  IF s = << >> THEN << >>
  ELSE IF Head(s) = Backslash /\ Len(s) >= 2 /\ s[2] \in {"n", "r"}
       THEN <<IF s[2] = "n" THEN NL ELSE CR>> \o Unescape(SubSeq(s, 3, Len(s)))
       ELSE <<Head(s)>> \o Unescape(Tail(s))

RECURSIVE Escape(_)
Escape(s) ==
  IF s = << >> THEN << >>
  ELSE (IF Head(s) = NL THEN <<Backslash, "n">>
        ELSE IF Head(s) = CR THEN <<Backslash, "r">>
        ELSE <<Head(s)>>) \o Escape(Tail(s))

\* a scalar of the followed documents: null, "double quoted", 'single quoted',
\* or (YAML only) a plain word; Undef when it is none of these
ScalarValue(s, plainOk) ==
  IF s = Null4 THEN <<VNull>>
  ELSE IF Len(s) >= 2 /\ Head(s) = Quote /\ s[Len(s)] = Quote
            /\ \A i \in 2..(Len(s) - 1) : s[i] \notin {Quote, NL, CR}
       THEN <<VStr(Unescape(SubSeq(s, 2, Len(s) - 1)))>>
  ELSE IF plainOk /\ Len(s) >= 2 /\ Head(s) = "'" /\ s[Len(s)] = "'"
            /\ \A i \in 2..(Len(s) - 1) : s[i] \notin {"'", NL, CR}
       THEN <<VStr(SubSeq(s, 2, Len(s) - 1))>>
  ELSE IF plainOk /\ IsPlain(s) THEN <<VStr(s)>>
  ELSE << >>

\* `key:` or `key: scalar` on an unindented line: Undef or Some(entry)
BlockEntryOf(key, rest, val) ==
  IF ~IsPlain(key) THEN << >>
  ELSE IF rest = << >> THEN <<Entry(key, VNull)>>
  ELSE IF Head(rest) = " " /\ val # << >> THEN <<Entry(key, val[1])>>
  ELSE << >>

BlockEntryAt(l, c) ==
  IF c < 1 THEN << >>
  ELSE BlockEntryOf(Slice(l, 0, c), SliceFrom(l, c + 1),
                    ScalarValue(TrimBlanksStart(SliceFrom(l, c + 1)), TRUE))

BlockEntry(l) == BlockEntryAt(l, IndexOf(l, <<":">>))

\* the text without the white space that stands outside quotes
RECURSIVE Compact(_, _)
Compact(s, inq) ==
  IF s = << >> THEN << >>
  ELSE IF Head(s) = Quote THEN <<Quote>> \o Compact(Tail(s), ~inq)
  ELSE IF ~inq /\ Head(s) \in {" ", NL, CR} THEN Compact(Tail(s), inq)
  ELSE <<Head(s)>> \o Compact(Tail(s), inq)

\* the pieces between the commas that stand outside quotes
RECURSIVE SplitTop(_, _, _)
SplitTop(s, cur, inq) ==
  IF s = << >> THEN <<cur>>
  ELSE IF Head(s) = "," /\ ~inq THEN <<cur>> \o SplitTop(Tail(s), << >>, FALSE)
  ELSE SplitTop(Tail(s), Append(cur, Head(s)), IF Head(s) = Quote THEN ~inq ELSE inq)

\* `"key":scalar`: Undef or Some(entry)
FlowEntryOf(key, val) ==
  IF ~IsPlain(key) \/ val = << >> THEN << >> ELSE <<Entry(key, val[1])>>

FlowEntryAt(e, c) ==
  IF c < 2 \/ Head(e) # Quote THEN << >>
  ELSE FlowEntryOf(Slice(e, 1, c), ScalarValue(SliceFrom(e, c + 2), FALSE))

FlowEntry(e) == FlowEntryAt(e, IndexOf(e, <<Quote, ":">>))

DistinctKeys(ents) ==
  \A i, j \in 1..Len(ents) : ents[i].k = ents[j].k => i = j

\* an object `{ "key": scalar, ... }` as JSON.stringify writes it, on one line
\* or several: Undef when the text is not of that form
FlowEntries(es) ==
  IF \A i \in 1..Len(es) : es[i] # << >>
  THEN <<MapOf([i \in 1..Len(es) |-> es[i][1]])>>
  ELSE << >>

FlowParts(parts) == FlowEntries([i \in 1..Len(parts) |-> FlowEntry(parts[i])])

FlowCompact(c) ==
  IF c = <<"{", "}">> THEN <<EmptyMap>>
  ELSE IF Len(c) >= 3 /\ Head(c) = "{" /\ c[Len(c)] = "}"
       THEN FlowParts(SplitTop(Slice(c, 1, Len(c) - 1), << >>, FALSE))
  ELSE << >>

FlowObject(str) == FlowCompact(Compact(str, FALSE))

\* the lines joined again, each ended by a line feed
RECURSIVE JoinLines(_)
JoinLines(ls) == IF ls = << >> THEN << >> ELSE Head(ls) \o <<NL>> \o JoinLines(Tail(ls))

\* JSON.parse: an object of the form above, with distinct keys; anything else
\* spelled with the model's characters is no JSON text
ObjectOrThrow(obj) ==
  IF obj # << >> /\ DistinctKeys(obj[1].ents) THEN Value(obj[1]) ELSE Thrown

JsonParseLib(str) == ObjectOrThrow(FlowObject(str))

\* @std/yaml parse:
\*   only blank and comment lines                 -> null
\*   a flow object of the form above              -> that object
\*   unindented `key:` / `key: scalar` lines      -> that mapping
\*   one of these with a key twice                -> throws (duplicated key)
\*   a flow mapping opened and never closed       -> throws
\*   anything else                                -> a value not followed
YamlBlock(str, ls, ents) ==
  IF \A i \in 1..Len(ls) : ents[i] # << >>
  THEN ObjectOrThrow(<<MapOf([i \in 1..Len(ls) |-> ents[i][1]])>>)
  ELSE IF Head(ls[1]) = "{" /\ \A i \in 1..Len(str) : str[i] # "}"
       THEN Thrown
  ELSE Value(Opaque(Trim(str)))

YamlFlow(str, ls, obj) ==
  IF obj # << >> THEN ObjectOrThrow(obj)
  ELSE YamlBlock(str, ls, [i \in 1..Len(ls) |-> BlockEntry(ls[i])])

YamlLines(str, ls) ==
  IF ls = << >> THEN NullDoc ELSE YamlFlow(str, ls, FlowObject(JoinLines(ls)))

YamlParseLib(str) == YamlLines(str, KeepLines(SplitLines(str), TRUE))

\* result ?? {}
OrEmpty(r) == IF r.t = "null" THEN Value(EmptyMap) ELSE r

\* yaml.parse: the library's result, {} for a null document
YamlParse(str) == OrEmpty(YamlParseLib(str))

\* json.parse
JsonParse(str) == JsonParseLib(str)

\* javascript.parse evaluates the block as an expression.  No text spelled
\* with the model's characters evaluates: it is a syntax error or names an
\* unbound identifier, and both end in the SyntaxError of the catch branch.
JavascriptParse(str) == Thrown

\* the parse function a caller registers as an engine of its own; the one
\* followed here takes every block for an empty document
CallerParse(str) == Value(EmptyMap)

-----------------------------------------------------------------------------
(* Options and their defaults                                              *)

\* the excerpt option: absent, a boolean, a separator string or a callback
ExUndef == [t |-> "undefined", s |-> << >>]
ExTrue == [t |-> "true", s |-> << >>]
ExFalse == [t |-> "false", s |-> << >>]
ExString(s) == [t |-> "string", s |-> s]
ExFunction == [t |-> "function", s |-> << >>]

\* options.engines when the caller registers no engine
NoEngines == [name \in {} |-> [parse |-> "none", stringify |-> "none"]]

\* the options argument; given = FALSE is a call without options.
\* delimiters is << >> (absent), <<d>> (one string) or <<open, close>>;
\* data is << >> or <<mapping>>; engines maps the names the caller registers.
NoOptions ==
  [given |-> FALSE, language |-> Undef, delimiters |-> << >>, excerpt |-> ExUndef,
   excerpt_separator |-> Undef, data |-> << >>, engines |-> NoEngines]

Options(language, delimiters, excerpt, separator) ==
  [given |-> TRUE, language |-> language, delimiters |-> delimiters,
   excerpt |-> excerpt, excerpt_separator |-> separator, data |-> << >>,
   engines |-> NoEngines]

\* the built-in engines; an engine names its parse and its stringify
\* ("none": the engine has no stringify function)
BuiltinEngines ==
  (Yaml :> [parse |-> "yaml", stringify |-> "yaml"]) @@
  (Json :> [parse |-> "json", stringify |-> "json"]) @@
  (Javascript :> [parse |-> "javascript", stringify |-> "javascript"])

\* defaults(options): both delimiters default to "---", one string serves both
\* sides; language defaults to "yaml"; the caller's engines are registered
\* over the built-in ones
defaults(options) ==
  LET ds == IF options.delimiters = << >> THEN <<Dashes>> ELSE options.delimiters
  IN  [delimiters |-> IF Len(ds) = 1 THEN <<ds[1], ds[1]>> ELSE ds,
       language |-> IF IsDef(options.language) /\ Get(options.language) # << >>
                    THEN Get(options.language) ELSE Yaml,
       engines |-> options.engines @@ BuiltinEngines,
       excerpt |-> options.excerpt,
       excerpt_separator |-> options.excerpt_separator,
       data |-> options.data]

\* utils startsWith(str, substr, len): the prefix of that length is substr
startsWith(str, substr, len) == Slice(str, 0, len) = substr

-----------------------------------------------------------------------------
(* Engine lookup and parse                                                 *)

Js == <<"j", "s">>
Yml == <<"y", "m", "l">>

\* toLowerCase on the letters the model spells names with
LowerChar(c) ==
  CASE c = "J" -> "j" [] c = "S" -> "s" [] c = "O" -> "o" [] c = "N" -> "n"
    [] c = "Y" -> "y" [] c = "A" -> "a" [] c = "M" -> "m" [] c = "L" -> "l"
    [] c = "V" -> "v" [] c = "C" -> "c" [] c = "R" -> "r" [] c = "I" -> "i"
    [] c = "P" -> "p" [] c = "T" -> "t"
    [] OTHER -> c

toLowerCase(s) == [i \in 1..Len(s) |-> LowerChar(s[i])]

alias(name) ==
  LET lower == toLowerCase(name)
  IN  IF lower \in {Js, Javascript} THEN Javascript
      ELSE IF lower \in {Yaml, Yml} THEN Yaml
      ELSE name

\* getEngine: Undef stands for the throw "engine is not registered".  A bare
\* parse function is registered as [parse |-> ..., stringify |-> "none"], the
\* engine { parse: fn } it is wrapped into.
getEngine(name, opts) ==
  IF name \in DOMAIN opts.engines THEN <<opts.engines[name]>>
  ELSE IF alias(name) \in DOMAIN opts.engines THEN <<opts.engines[alias(name)]>>
  ELSE << >>

EngineParse(engine, str) ==
  CASE engine.parse = "yaml" -> YamlParse(str)
    [] engine.parse = "json" -> JsonParse(str)
    [] engine.parse = "javascript" -> JavascriptParse(str)
    [] engine.parse = "caller" -> CallerParse(str)
    [] OTHER -> Thrown

\* parse(language, str, options): Thrown when the engine is not registered or
\* its parse throws
parseWith(engine, str) ==
  IF engine = << >> THEN Thrown ELSE EngineParse(engine[1], str)

parse(language, str, opts) == parseWith(getEngine(language, opts), str)

-----------------------------------------------------------------------------
(* Inputs and the file record                                              *)

\* an input: a string, a byte buffer (content is its decoded text) or a fresh
\* object { content, data? } (data is << >> or <<mapping>>)
StringInput(s) == [t |-> "string", content |-> s, data |-> << >>]
BufferInput(s) == [t |-> "buffer", content |-> s, data |-> << >>]
ObjectInput(s, d) == [t |-> "object", content |-> s, data |-> <<d>>]

\* the other values a caller may pass: null or undefined, an object without
\* content ({}), and a value that is none of these (a number)
NullInput == [t |-> "null", content |-> << >>, data |-> << >>]
EmptyObjectInput == [t |-> "object", content |-> << >>, data |-> << >>]
NumberInput == [t |-> "number", content |-> << >>, data |-> << >>]

\* toString(file.content ?? "") throws its TypeError: content is neither a
\* string nor a buffer.  null, undefined and a missing content give "".
toStringThrows(input) == input.t \notin {"string", "buffer", "object", "null"}

stripBom(str) == IF str # << >> /\ Head(str) = BOM THEN Tail(str) ELSE str

\* toFile.  language, matter, stringify and orig are set with define(), as
\* non-enumerable properties; language and matter are optional texts because
\* a copy of the record may lack them.
toFile(input) ==
  [data |-> IF input.t = "object" /\ input.data # << >> THEN input.data[1] ELSE EmptyMap,
   orig |-> input.content,
   language |-> Some(<< >>),
   matter |-> Some(<< >>),
   stringify |-> TRUE,
   content |-> stripBom(input.content),
   isEmpty |-> FALSE,
   excerpt |-> << >>,
   empty |-> Undef]

\* { ...cached }: the enumerable own properties only
SpreadFile(cached) ==
  [cached EXCEPT !.language = Undef, !.matter = Undef, !.stringify = FALSE,
                 !.orig = << >>]

-----------------------------------------------------------------------------
(* excerpt(file, options)                                                  *)

\* data.excerpt_separator ?? opts.excerpt_separator: Undef or Some(text)
ExcerptSep(file, opts) ==
  LET own == Prop(file.data, ExcerptSeparatorKey)
  IN  IF own # << >> /\ own[1].t = "string" THEN Some(own[1].v)
      ELSE opts.excerpt_separator

\* (a variant in which a separator given with the data or the options is
\* preferred to a string-valued excerpt option)
ExcerptDelimiterSepFirst(file, opts) ==
  LET sep == ExcerptSep(file, opts)
  IN  IF IsDef(sep) THEN Get(sep)
      ELSE IF opts.excerpt.t = "string" THEN opts.excerpt.s
      ELSE opts.delimiters[1]

ExcerptDelimiter(file, opts) ==
  LET sep == ExcerptSep(file, opts)
  IN  IF opts.excerpt.t = "string" THEN opts.excerpt.s
      ELSE IF IsDef(sep) THEN Get(sep)
      ELSE opts.delimiters[1]

\* whether a separator is searched for at all
ExcerptRuns(file, opts) ==
  /\ opts.excerpt.t # "function"
  /\ ~(~IsDef(ExcerptSep(file, opts)) /\ opts.excerpt.t \in {"false", "undefined"})

ExcerptAt(file, idx) ==
  IF idx # -1 THEN [file EXCEPT !.excerpt = Slice(file.content, 0, idx)] ELSE file

excerpt(file, opts) ==
  IF ~ExcerptRuns(file, opts) THEN file
  ELSE ExcerptAt(file, IndexOf(file.content, ExcerptDelimiter(file, opts)))

-----------------------------------------------------------------------------
(* parseMatter and matterLanguage                                          *)

matterTest(str, opts) == startsWith(str, opts.delimiters[1], Len(opts.delimiters[1]))

\* matterLanguage(str, options): the line after the open delimiter
LanguageOf(language) ==
  [raw |-> language, name |-> IF language # << >> THEN Trim(language) ELSE << >>]

FirstLine(s) == LanguageOf(Slice(s, 0, SearchLineBreak(s)))

matterLanguage(str, opts) ==
  FirstLine(IF matterTest(str, opts) THEN SliceFrom(str, Len(opts.delimiters[1])) ELSE str)

Returned(file) == [out |-> "returned", file |-> file]
Threw(file) == [out |-> "threw", file |-> file]

\* (a variant that leaves the record's language as toFile set it)
KeepLanguage(file, opts) == file

\* if (opts.language) file.language = opts.language: the resolved language is
\* never empty, so the assignment always happens
OptionLanguage(file, opts) == [file EXCEPT !.language = Some(opts.language)]

\* (a variant in which the inline tag never replaces the option's language)
ResolveLanguageOptionFirst(optLanguage, lang) == optLanguage

\* file.language once the line after the open delimiter has been read
ResolveLanguage(optLanguage, lang) ==
  IF lang.name # << >> THEN lang.name ELSE optLanguage

\* if (file.content[0] === ch) file.content = file.content.slice(1)
DropLeading(content, ch) ==
  IF CharAt(content, 0) = ch THEN SliceFrom(content, 1) ELSE content

\* file.content after the block: nothing when no close delimiter was found,
\* else what follows it, less one CR and one LF
ContentAfter(str, closeIndex, len, close) ==
  IF closeIndex = len THEN << >>
  ELSE DropLeading(DropLeading(SliceFrom(str, closeIndex + Len(close)), <<CR>>), <<NL>>)

\* closeIndex: the index of the close delimiter, len when there is none
CloseIndex(found, len) == IF found = -1 THEN len ELSE found

\* the block parsed: a throw leaves the record as it is, else data and content
\* are set and the excerpt is extracted
ParsedBlock(file, opts, content, parsed) ==
  IF parsed.t = "throw" THEN Threw(file)
  ELSE Returned(excerpt([file EXCEPT !.data = parsed.d, !.content = content], opts))

\* file.matter is set: an empty block gives empty data, any other is parsed
MatterBlock(file, opts, content) ==
  IF Trim(StripComments(Get(file.matter))) = << >>
  THEN Returned(excerpt([file EXCEPT !.isEmpty = TRUE, !.empty = Some(file.content),
                                     !.data = EmptyMap, !.content = content], opts))
  ELSE ParsedBlock(file, opts, content,
                   parse(Get(file.language), Get(file.matter), opts))

\* str is what follows the open delimiter and the language tag
CloseAt(file, opts, str, len, closeIndex) ==
  MatterBlock([file EXCEPT !.matter = Some(Slice(str, 0, closeIndex))], opts,
              ContentAfter(str, closeIndex, len, <<NL>> \o opts.delimiters[2]))

AfterLanguage(file, opts, str, len) ==
  CloseAt(file, opts, str, len,
          CloseIndex(IndexOf(str, <<NL>> \o opts.delimiters[2]), len))

\* (a variant that leaves the inline tag at the head of the block)
WithLanguageKeepTag(file, opts, str, lang) ==
  AfterLanguage([file EXCEPT !.language = Some(ResolveLanguage(opts.language, lang))],
                opts, str, Len(str))

\* str is what follows the open delimiter, lang the tag read from it
WithLanguage(file, opts, str, lang) ==
  AfterLanguage([file EXCEPT !.language = Some(ResolveLanguage(opts.language, lang))],
                opts,
                IF lang.name # << >> THEN SliceFrom(str, Len(lang.raw)) ELSE str,
                Len(str))

\* the record carries the option's language; open is the open delimiter
FromOpen(file, opts, open) ==
  IF ~startsWith(file.content, open, Len(open)) THEN Returned(excerpt(file, opts))
  ELSE IF CharAt(file.content, Len(open)) = Slice(open, -1, Len(open)) THEN Returned(file)
  ELSE WithLanguage(file, opts, SliceFrom(file.content, Len(open)),
                    matterLanguage(SliceFrom(file.content, Len(open)), opts))

parseMatterWith(file, opts) == FromOpen(OptionLanguage(file, opts), opts, opts.delimiters[1])

\* parseMatter(file, options): the outcome, and the record as the call left
\* it (the record is mutated in place, so a throw leaves it half filled)
parseMatter(file0, options) == parseMatterWith(file0, defaults(options))

-----------------------------------------------------------------------------
(* stringify                                                               *)

RECURSIVE Concat(_)
Concat(ss) == IF ss = << >> THEN << >> ELSE Head(ss) \o Concat(Tail(ss))

\* @std/yaml stringify of a mapping: `{}` when empty, else a line per entry;
\* a string that is no plain word is quoted
YamlScalar(v) ==
  IF v.t = "null" THEN Null4
  ELSE IF IsPlain(v.v) /\ v.v # Null4 THEN v.v
  ELSE IF \E i \in 1..Len(v.v) : v.v[i] \in {NL, CR, "'"}
       THEN <<Quote>> \o Escape(v.v) \o <<Quote>>
  ELSE <<"'">> \o v.v \o <<"'">>

YamlStringifyLib(d) ==
  IF d.ents = << >> THEN <<"{", "}", NL>>
  ELSE Concat([i \in 1..Len(d.ents) |->
                 d.ents[i].k \o <<":", " ">> \o YamlScalar(d.ents[i].v) \o <<NL>>])

\* JSON.stringify(data, null, 2)
JsonScalar(v) ==
  IF v.t = "null" THEN Null4 ELSE <<Quote>> \o Escape(v.v) \o <<Quote>>

JsonStringifyLib(d) ==
  IF d.ents = << >> THEN <<"{", "}">>
  ELSE <<"{", NL>>
       \o Concat([i \in 1..Len(d.ents) |->
                    <<" ", " ", Quote>> \o d.ents[i].k \o <<Quote, ":", " ">>
                    \o JsonScalar(d.ents[i].v)
                    \o (IF i < Len(d.ents) THEN <<",">> ELSE << >>) \o <<NL>>])
       \o <<"}">>

\* engine.stringify(data): Undef when it throws (javascript) 
EngineStringify(engine, d) ==
  CASE engine.stringify = "yaml" -> <<YamlStringifyLib(d)>>
    [] engine.stringify = "json" -> <<JsonStringifyLib(d)>>
    [] OTHER -> << >>

\* (a variant that appends nothing)
newlineNever(str) == str

\* newline(str): ensure the string ends with a line feed
newline(str) == IF Slice(str, -1, Len(str)) # <<NL>> THEN str \o <<NL>> ELSE str

TextOut(str) == [out |-> "returned", str |-> str]
TextThrew == [out |-> "threw", str |-> << >>]

\* buf + newline(str), buf first taking the excerpt when content lacks it
WithExcerpt(file, opts, buf) ==
  TextOut((IF file.excerpt # << >> /\ IndexOf(file.content, Trim(file.excerpt)) = -1
           THEN buf \o newline(file.excerpt) \o newline(opts.delimiters[2])
           ELSE buf)
          \o newline(file.content))

\* matter is the engine's text, trimmed
WithMatter(file, opts, matter) ==
  WithExcerpt(file, opts,
              IF matter # <<"{", "}">>
              THEN newline(opts.delimiters[1]) \o newline(matter)
                     \o newline(opts.delimiters[2])
              ELSE << >>)

Stringified(file, opts, out) ==
  IF out = << >> THEN TextThrew ELSE WithMatter(file, opts, Trim(out[1]))

WithEngine(file, opts, data, engine) ==
  IF engine = << >> THEN TextThrew
  ELSE IF engine[1].stringify = "none" THEN TextThrew
  ELSE Stringified(file, opts, EngineStringify(engine[1], Spread(file.data, data)))

\* data is << >> (null, undefined) or <<mapping>>
WithData(file, opts, data) ==
  IF data = << >> THEN TextOut(file.content)
  ELSE WithEngine(file, opts, data[1],
                  getEngine(IF IsDef(file.language) /\ Get(file.language) # << >>
                            THEN Get(file.language) ELSE opts.language, opts))

WithOptions(file, data, opts) ==
  WithData(file, opts, IF data = << >> THEN opts.data ELSE data)

\* stringify(file, data, options) on a file record; data is << >> (null,
\* undefined) or <<mapping>>
stringifyFile(file, data0, options0) ==
  WithOptions(file,
              IF data0 = << >> /\ ~options0.given THEN <<file.data>> ELSE data0,
              defaults(options0))

\* stringify(file, data, options) of stringify.ts, for a text or a record
stringify(file, isText, data, options) ==
  IF isText /\ data = << >> /\ ~options.given THEN TextOut(file)
  ELSE stringifyFile(file, data, options)

-----------------------------------------------------------------------------
(* matterImpl and the cache                                                *)

\* the record returned for the input ""
EmptyInputFile ==
  [data |-> EmptyMap, orig |-> << >>, language |-> Some(<< >>), matter |-> Some(<< >>),
   stringify |-> TRUE, content |-> << >>, isEmpty |-> TRUE, excerpt |-> << >>,
   empty |-> Undef]

\* file = { ...cached }; file.orig = cached.orig
CacheHit(cached) == [SpreadFile(cached) EXCEPT !.orig = cached.orig]

\* (a variant that consults the cache whatever the options)
UsesCacheAlways(options) == TRUE

\* whether a call with these options looks the input up in the cache
UsesCache(options) == ~options.given

\* what a call that went through parseMatter returns; store tells whether the
\* record was put in the cache before
Parsed(r, key, c, store) ==
  [out |-> r.out, file |-> r.file,
   cache |-> IF store
             THEN [k \in DOMAIN c \cup {key} |-> IF k = key THEN r.file ELSE c[k]]
             ELSE c,
   hit |-> FALSE]

matterFile(file, options, c) ==
  IF UsesCache(options) /\ file.content \in DOMAIN c
  THEN [out |-> "returned", file |-> CacheHit(c[file.content]), cache |-> c, hit |-> TRUE]
  ELSE Parsed(parseMatter(file, options), file.content, c, UsesCache(options))

\* matterImpl(input, options) against the cache c: the outcome, the record,
\* the cache after the call, and whether the record came from the cache.
\* The record is stored before parseMatter runs and is filled in place, so
\* the cache holds whatever the call left in it.  toFile throws before the
\* cache is read.
matterImpl(input, options, c) ==
  IF input.t = "string" /\ input.content = << >>
  THEN [out |-> "returned", file |-> EmptyInputFile, cache |-> c, hit |-> FALSE]
  ELSE IF toStringThrows(input)
       THEN [out |-> "threw", file |-> EmptyInputFile, cache |-> c, hit |-> FALSE]
  ELSE matterFile(toFile(input), options, c)

\* stringify on the record r.file that matterImpl made of a text
StringifyRecord(r, data, options) ==
  IF r.out = "threw" THEN [out |-> "threw", str |-> << >>, cache |-> r.cache]
  ELSE [cache |-> r.cache] @@ stringify(r.file, FALSE, data, options)

\* matter.stringify(file, data, options): a text is first turned into a
\* record by matterImpl, then stringify runs on the record
matterStringify(file, isText, data, options, c) ==
  IF isText
  THEN StringifyRecord(matterImpl(StringInput(file), options, c), data, options)
  ELSE [cache |-> c] @@ stringify(file, FALSE, data, options)

-----------------------------------------------------------------------------
(* The calls a client makes on one document text                           *)

SeqsUpTo(S, n) == UNION {[1..k -> S] : k \in 0..n}

\* every text spelled with at most n of the given pieces
TextsOver(pieces, n) == {Concat(ts) : ts \in SeqsUpTo(pieces, n)}

EmptyCache == [k \in {} |-> EmptyInputFile]

NoCall ==
  [op |-> "none", input |-> StringInput(<< >>), opts |-> NoOptions, out |-> "none",
   file |-> EmptyInputFile, hit |-> FALSE, str |-> << >>, arg |-> << >>,
   prev |-> EmptyMap]

\* metadata an object input may carry
SepData == MapOf(<<Entry(ExcerptSeparatorKey, VStr(<<"#">>))>>)

\* the forms in which the text t reaches matter(): the string itself, a byte
\* buffer that starts with a byte-order mark, an object with metadata
InputsOf(t) == {StringInput(t), BufferInput(<<BOM>> \o t), ObjectInput(t, SepData)}

\* matter(input, options)
\* the call matter(input, options) ended as r says
Extracted(input, options, r) ==
  /\ cache' = r.cache
  /\ res' = [op |-> "extract", input |-> input, opts |-> options, out |-> r.out,
             file |-> r.file, hit |-> r.hit, str |-> << >>, arg |-> << >>,
             prev |-> EmptyMap]
  /\ seen' = IF input.t = "string" /\ ~options.given /\ r.out = "returned"
             THEN seen \cup {r.file.data} ELSE seen
  /\ UNCHANGED text

Extract(input, options) == Extracted(input, options, matterImpl(input, options, cache))

\* matter.clearCache()
ClearCache ==
  /\ cache' = EmptyCache
  /\ res' = [NoCall EXCEPT !.op = "clearCache"]
  /\ UNCHANGED <<text, seen>>

\* matter.stringify(text, data, options) on the text itself
StringifiedText(data, options, r) ==
  /\ cache' = r.cache
  /\ res' = [NoCall EXCEPT !.op = "stringify", !.input = StringInput(text),
                            !.opts = options, !.arg = data, !.out = r.out,
                            !.str = r.str]
  /\ UNCHANGED <<text, seen>>

StringifyText(data, options) ==
  StringifiedText(data, options, matterStringify(text, TRUE, data, options, cache))

\* s = matter.stringify(d, d.data) on the record d the last call returned,
\* followed by matter(s)
\* the second call, matter(s.str), ended as r says
Reextracted(d, s, r) ==
  /\ res' = [res EXCEPT !.op = "roundtrip", !.out = r.out, !.file = r.file,
                        !.hit = r.hit, !.str = s.str, !.prev = d.data]
  /\ cache' = r.cache

\* matter.stringify(d, d.data) ended as s says
Restringified(d, s) ==
  IF s.out = "threw"
  THEN /\ res' = [res EXCEPT !.op = "roundtrip", !.out = "threw", !.hit = FALSE,
                              !.prev = d.data]
       /\ cache' = s.cache
  ELSE Reextracted(d, s, matterImpl(StringInput(s.str), NoOptions, s.cache))

RoundTrip ==
  /\ res.op = "extract" /\ res.out = "returned"
  /\ Restringified(res.file,
                    matterStringify(res.file, FALSE, <<res.file.data>>, NoOptions, cache))
  /\ UNCHANGED <<text, seen>>

-----------------------------------------------------------------------------
(* Spec: the cache under calls with and without options                    *)

MaxCacheToks == 3

CachePieces == {Dashes, <<NL>>, <<"a", ":">>, <<"{">>, <<"a">>}

CacheTexts == TextsOver(CachePieces, MaxCacheToks)

CacheOptions ==
  {NoOptions,
   Options(Undef, << >>, ExUndef, Undef),
   Options(Some(Json), << >>, ExTrue, Undef)}

Init ==
  /\ text \in CacheTexts
  /\ cache = EmptyCache
  /\ res = NoCall
  /\ seen = {}

Next ==
  \/ \E input \in InputsOf(text), options \in CacheOptions : Extract(input, options)
  \/ ClearCache

Spec == Init /\ [][Next]_vars

-----------------------------------------------------------------------------
(* Claims on the cache                                                     *)

OpenDelimiterOf(options) == defaults(options).delimiters[1]

\* the last call was matter(t) on a string t, without options
PlainCall == res.op = "extract" /\ res.input.t = "string" /\ ~res.opts.given

\* C1 (as claimed): for every text t that does not start with the open
\* delimiter, matter(t) without options returns data {} and content t,
\* whatever calls were made before.
C1_NoFrontMatterInvariance ==
  (PlainCall /\ ~startsWith(res.input.content, Dashes, Len(Dashes)))
    => /\ res.out = "returned"
       /\ DataEq(res.file.data, EmptyMap)
       /\ res.file.content = res.input.content

\* the engine of the call's language is registered and its parse throws on
\* the raw block
EngineParseFails(input, options) ==
  LET r == parseMatter(toFile(input), options)
      engine == getEngine(Get(r.file.language), defaults(options))
  IN  /\ r.out = "threw"
      /\ engine # << >>
      /\ EngineParse(engine[1], Get(r.file.matter)).t = "throw"

\* C2 (as claimed): a call whose engine's parse fails on the raw block throws,
\* first or repeated, with or without options; it never returns a record.
C2_ParseFailurePropagates ==
  (res.op = "extract" /\ EngineParseFails(res.input, res.opts)) => res.out = "threw"

\* C3 (as claimed): any two calls matter(t) with the same text t and no
\* options return value-equal data, in any sequence of matter and clearCache
\* calls.  seen holds the data such calls returned so far.
C3_CacheHitSameData == \A d1, d2 \in seen : DataEq(d1, d2)

\* what a call computes from its input and options alone
Computed(input, options) ==
  IF input.t = "string" /\ input.content = << >>
  THEN Returned(EmptyInputFile)
  ELSE parseMatter(toFile(input), options)

-----------------------------------------------------------------------------
(* SpecParse: the language of the record, on texts with inline tags        *)

MaxParseToks == 4

ParsePieces == {Dashes, <<"-">>, <<NL>>, Json, Yaml, <<"a", ":">>}

ParseTexts == TextsOver(ParsePieces, MaxParseToks)

ParseOptions ==
  {NoOptions,
   Options(Undef, << >>, ExUndef, Undef),
   Options(Some(Json), << >>, ExUndef, Undef),
   Options(Some(Yaml), << >>, ExUndef, Undef)}

InitParse ==
  /\ text \in ParseTexts
  /\ cache = EmptyCache
  /\ res = NoCall
  /\ seen = {}

NextParse == \E options \in ParseOptions : Extract(StringInput(text), options)

SpecParse == InitParse /\ [][NextParse]_vars

\* the text starts with the open delimiter and the collision guard lets it
\* through: front matter is present
HasFrontMatter(input, options) ==
  LET open == OpenDelimiterOf(options)
      str == toFile(input).content
  IN  /\ ~(input.t = "string" /\ input.content = << >>)
      /\ startsWith(str, open, Len(open))
      /\ CharAt(str, Len(open)) # Slice(open, -1, Len(open))

\* the text starts with the open delimiter and the collision guard rejects it
Collides(input, options) ==
  LET open == OpenDelimiterOf(options)
      str == toFile(input).content
  IN  /\ startsWith(str, open, Len(open))
      /\ CharAt(str, Len(open)) = Slice(open, -1, Len(open))

\* the inline language tag of the text, "" when it has none
InlineTag(input, options) ==
  LET open == OpenDelimiterOf(options)
  IN  matterLanguage(SliceFrom(toFile(input).content, Len(open)), defaults(options)).name

\* the last call ended as parsing the raw block with this language ends
ParsedWith(language) ==
  LET parsed == parse(language, Get(res.file.matter), defaults(res.opts))
  IN  Trim(StripComments(Get(res.file.matter))) # << >>
        => IF parsed.t = "throw" THEN res.out = "threw"
           ELSE res.out = "returned" /\ DataEq(res.file.data, parsed.d)

\* the last call passed options.language on a text with front matter
LanguageCall ==
  /\ res.op = "extract"
  /\ IsDef(res.opts.language)
  /\ HasFrontMatter(res.input, res.opts)

\* C5 (as claimed): when the caller passes options.language and the text
\* carries an inline tag, the record's language and the engine that parses the
\* block are the caller's option.
C5_ExplicitOptionWins ==
  (LanguageCall /\ InlineTag(res.input, res.opts) # << >>)
    => /\ res.file.language = res.opts.language
       /\ ParsedWith(Get(res.opts.language))

\* C5 (amended): the order is inline tag > options.language > "yaml".  When
\* the caller passes options.language, the record's language and the engine
\* that parses the block are the inline tag's if the text carries a tag, and
\* the option's only if it carries none.
C5_InlineTagWins ==
  LanguageCall
    => LET tag == InlineTag(res.input, res.opts)
           language == IF tag # << >> THEN tag ELSE Get(res.opts.language)
       IN  /\ res.file.language = Some(language)
           /\ ParsedWith(language)

\* options.language is json, the tag is yaml, and the block was parsed as YAML
\* into a mapping that JSON.parse would have rejected
C5_Witness ==
  /\ LanguageCall
  /\ res.opts.language = Some(Json)
  /\ InlineTag(res.input, res.opts) = Yaml
  /\ res.out = "returned"
  /\ res.file.language = Some(Yaml)
  /\ res.file.data.ents # << >>
  /\ JsonParse(Get(res.file.matter)).t = "throw"

\* C6 (as claimed): when front matter is absent (no open delimiter at the
\* start, or the collision guard rejects the text), the returned record's
\* language is the empty string.
C6_AbsentLanguageEmpty ==
  (res.op = "extract" /\ res.out = "returned" /\ ~HasFrontMatter(res.input, res.opts))
    => res.file.language = Some(<< >>)

\* C6 (amended): when front matter is absent, a record the call computed has
\* the language of the options ("yaml" by default); only the record for the
\* text "" has the empty string, and a record served from the cache has no
\* language property.
C6_AbsentLanguageIsOption ==
  (res.op = "extract" /\ res.out = "returned" /\ ~HasFrontMatter(res.input, res.opts))
    => res.file.language =
         IF res.hit THEN Undef
         ELSE IF res.input.t = "string" /\ res.input.content = << >> THEN Some(<< >>)
         ELSE Some(defaults(res.opts).language)

\* the collision guard rejected the text and the record's language is the
\* json the options asked for
C6_Witness ==
  /\ res.op = "extract" /\ res.out = "returned" /\ ~res.hit
  /\ Collides(res.input, res.opts)
  /\ res.opts.language = Some(Json)
  /\ res.file.language = Some(Json)

-----------------------------------------------------------------------------
(* SpecExcerpt: the excerpt, under every way of naming a separator         *)

MaxExcerptToks == 4

ExcerptPieces == {Dashes, <<"-">>, <<NL>>, <<"a", ":">>, <<"#">>}

ExcerptTexts == TextsOver(ExcerptPieces, MaxExcerptToks)

\* options.excerpt absent, true, false or ":", with and without
\* options.excerpt_separator "a"
ExcerptOptions ==
  {Options(Undef, << >>, e, sep) :
     e \in {ExUndef, ExTrue, ExFalse, ExString(<<":">>)}, sep \in {Undef, Some(<<"a">>)}}

InitExcerpt ==
  /\ text \in ExcerptTexts
  /\ cache = EmptyCache
  /\ res = NoCall
  /\ seen = {}

NextExcerpt ==
  \E input \in {StringInput(text), ObjectInput(text, SepData)}, options \in ExcerptOptions :
    Extract(input, options)

SpecExcerpt == InitExcerpt /\ [][NextExcerpt]_vars

\* the excerpt_separator the record's data carries, if any
DataSeparator(d) ==
  LET own == Prop(d, ExcerptSeparatorKey)
  IN  IF own # << >> /\ own[1].t = "string" THEN Some(own[1].v) ELSE Undef

\* an excerpt is asked for: a separator is given with the data or the options,
\* or options.excerpt is true or a string
ExcerptAsked(d, options) ==
  \/ IsDef(DataSeparator(d))
  \/ IsDef(options.excerpt_separator)
  \/ options.excerpt.t \in {"true", "string"}

\* the part of content before the first occurrence of sep, "" when there is none
Before(content, sep) ==
  IF IndexOf(content, sep) = -1 THEN << >> ELSE Slice(content, 0, IndexOf(content, sep))

\* the separator by the order data > options.excerpt_separator > string-valued
\* options.excerpt > open delimiter
ClaimedSeparator(d, options) ==
  IF IsDef(DataSeparator(d)) THEN Get(DataSeparator(d))
  ELSE IF IsDef(options.excerpt_separator) THEN Get(options.excerpt_separator)
  ELSE IF options.excerpt.t = "string" THEN options.excerpt.s
  ELSE OpenDelimiterOf(options)

\* the separator by the order string-valued options.excerpt > data >
\* options.excerpt_separator > open delimiter
StringFirstSeparator(d, options) ==
  IF options.excerpt.t = "string" THEN options.excerpt.s
  ELSE IF IsDef(DataSeparator(d)) THEN Get(DataSeparator(d))
  ELSE IF IsDef(options.excerpt_separator) THEN Get(options.excerpt_separator)
  ELSE OpenDelimiterOf(options)

\* the last call returned a record on which the excerpt step ran with a
\* non-callback excerpt option
ExcerptCall ==
  /\ res.op = "extract" /\ res.out = "returned" /\ ~res.hit
  /\ res.opts.excerpt.t # "function"
  /\ ~Collides(res.input, res.opts)
  /\ ExcerptAsked(res.file.data, res.opts)

\* C7 (as claimed): the separator searched for is data.excerpt_separator >
\* options.excerpt_separator > a string-valued options.excerpt > the open
\* delimiter, so the excerpt is the content before that separator.
C7_DataSeparatorFirst ==
  ExcerptCall
    => res.file.excerpt = Before(res.file.content, ClaimedSeparator(res.file.data, res.opts))

\* C7 (amended): the separator searched for is a string-valued options.excerpt
\* > data.excerpt_separator > options.excerpt_separator > the open delimiter:
\* a string-valued excerpt option overrides the separator of the data and of
\* the options, and the data's separator overrides options.excerpt_separator.
C7_StringExcerptFirst ==
  ExcerptCall
    => res.file.excerpt =
         Before(res.file.content, StringFirstSeparator(res.file.data, res.opts))

\* the data names "#", the options name "a" and the excerpt option is ":";
\* all three occur in content and the excerpt ends at ":", not at "#" or "a"
C7_Witness ==
  /\ ExcerptCall
  /\ DataSeparator(res.file.data) = Some(<<"#">>)
  /\ res.opts.excerpt_separator = Some(<<"a">>)
  /\ res.opts.excerpt = ExString(<<":">>)
  /\ IndexOf(res.file.content, <<"#">>) # -1
  /\ IndexOf(res.file.content, <<"a">>) # -1
  /\ res.file.excerpt = Before(res.file.content, <<":">>)
  /\ res.file.excerpt # Before(res.file.content, <<"#">>)
  /\ res.file.excerpt # Before(res.file.content, <<"a">>)

\* C8 (as claimed): every record returned under a non-callback excerpt option
\* has as excerpt the content before the first occurrence of the resolved
\* separator, and "" when no excerpt is asked for or the separator does not
\* occur.
C8_ExcerptBeforeSeparator ==
  (res.op = "extract" /\ res.out = "returned" /\ res.opts.excerpt.t # "function")
    => res.file.excerpt =
         IF ExcerptAsked(res.file.data, res.opts)
         THEN Before(res.file.content, ExcerptDelimiter(res.file, defaults(res.opts)))
         ELSE << >>

-----------------------------------------------------------------------------
(* SpecStringify: matter.stringify on texts and on returned records        *)

MaxStringifyToks == 4

DashLine == Dashes \o <<NL>>

JsonBlock == <<"{", Quote, "a", Quote, ":", Quote, "b", Quote, "}">>

StringifyPieces == {DashLine, Dashes, <<NL>>, Json, <<"a", ":">>, JsonBlock}

StringifyTexts == TextsOver(StringifyPieces, MaxStringifyToks)

StringifyOptions == {NoOptions, Options(Some(Json), << >>, ExUndef, Undef)}

InitStringify ==
  /\ text \in StringifyTexts
  /\ cache = EmptyCache
  /\ res = NoCall
  /\ seen = {}

NextStringify ==
  \/ \E options \in StringifyOptions : Extract(StringInput(text), options)
  \/ RoundTrip
  \/ StringifyText(<< >>, NoOptions)

SpecStringify == InitStringify /\ [][NextStringify]_vars

\* C9 (as claimed): matter.stringify(text) with no data and no options
\* returns the text unchanged, for every text.
C9_StringifyPassThrough ==
  (res.op = "stringify" /\ res.arg = << >> /\ ~res.opts.given)
    => res.out = "returned" /\ res.str = res.input.content

\* the language of the record matter(input, options) returns names the yaml
\* or the json engine, whose parse inverts their stringify
InvertibleLanguage(input, options) ==
  LET language == Computed(input, options).file.language
      engine == getEngine(Get(language), defaults(options))
  IN  /\ IsDef(language)
      /\ engine # << >>
      /\ engine[1].parse \in {"yaml", "json"}

\* the last step was matter(matter.stringify(d, d.data)) for a record d that
\* matter() returned for a text with front matter in such a language, d.data
\* being a mapping
RoundTripCall ==
  /\ res.op = "roundtrip"
  /\ HasFrontMatter(res.input, res.opts)
  /\ InvertibleLanguage(res.input, res.opts)
  /\ res.prev.kind = "map"

\* C10 (as claimed): for every record d with front matter that matter()
\* returned, in a language whose parse inverts its stringify,
\* matter(matter.stringify(d, d.data)) returns data deep-equal to d.data.
C10_RoundTrip ==
  RoundTripCall => res.out = "returned" /\ DataEq(res.file.data, res.prev)

\* C10 (amended): the round trip returns data deep-equal to d.data when d.data
\* is a non-empty mapping and the language is yaml or json.  (For empty data
\* stringify writes no front-matter block, so the second matter() call parses
\* whatever d.content starts with.)
C10_RoundTripNonEmpty ==
  (RoundTripCall /\ res.prev.ents # << >>)
    => res.out = "returned" /\ DataEq(res.file.data, res.prev)

\* a record whose json block was selected by an inline tag went through
\* stringify and came back with the same non-empty data
C10_Witness ==
  /\ RoundTripCall
  /\ InlineTag(res.input, res.opts) = Json
  /\ res.prev.ents # << >>
  /\ res.out = "returned" /\ ~res.hit
  /\ DataEq(res.file.data, res.prev)

-----------------------------------------------------------------------------
(* SpecRecord: matter.stringify on the record a call returned              *)

\* matter.stringify(d, data, options) on the record d the last matter() call
\* returned; the record stays in res.file, its data is kept in res.prev
StringifiedFile(d, data, options, s) ==
  /\ cache' = s.cache
  /\ res' = [res EXCEPT !.op = "stringifyFile", !.opts = options, !.arg = data,
                        !.out = s.out, !.str = s.str, !.prev = d.data]
  /\ UNCHANGED <<text, seen>>

StringifyFile(data, options) ==
  /\ res.op = "extract" /\ res.out = "returned"
  /\ StringifiedFile(res.file, data, options,
                     matterStringify(res.file, FALSE, data, options, cache))

MaxRecordToks == 3

Toml == <<"t", "o", "m", "l">>

RecordPieces ==
  {Dashes, Dashes \o <<NL>>, <<NL>>, Js, Toml, <<"a", ":", NL>>, <<"b", ":", NL>>}

RecordTexts == TextsOver(RecordPieces, MaxRecordToks)

\* data a caller passes to stringify: "a" with a string, "c" with null
ExtraData == MapOf(<<Entry(<<"a">>, VStr(<<"z">>)), Entry(<<"c">>, VNull)>>)

\* { engines: { toml: fn } }: a bare parse function registered as toml
TomlEngines == Toml :> [parse |-> "caller", stringify |-> "none"]

RecordOptions ==
  {NoOptions,
   Options(Undef, << >>, ExUndef, Undef),
   Options(Some(Javascript), << >>, ExUndef, Undef),
   [Options(Undef, << >>, ExUndef, Undef) EXCEPT !.engines = TomlEngines],
   [Options(Undef, << >>, ExUndef, Undef) EXCEPT !.data = <<ExtraData>>]}

InitRecord ==
  /\ text \in RecordTexts
  /\ cache = EmptyCache
  /\ res = NoCall
  /\ seen = {}

NextRecord ==
  \/ \E options \in RecordOptions : Extract(StringInput(text), options)
  \/ \E data \in {<< >>, <<ExtraData>>}, options \in RecordOptions :
       StringifyFile(data, options)

SpecRecord == InitRecord /\ [][NextRecord]_vars

\* the language stringify resolves for the record under these options names
\* the javascript engine or an engine without a stringify function
UnsupportedLanguage(file, options) ==
  LET opts == defaults(options)
      language == IF IsDef(file.language) /\ Get(file.language) # << >>
                  THEN Get(file.language) ELSE opts.language
      engine == getEngine(language, opts)
  IN  /\ engine # << >>
      /\ engine[1].stringify \in {"none", "javascript"}

\* C11 (as claimed): stringifying a record whose language resolves to the
\* javascript engine or to an engine without stringify throws and returns no
\* text, whether data and options are absent or supplied.
C11_UnsupportedStringifyThrows ==
  (res.op = "stringifyFile" /\ UnsupportedLanguage(res.file, res.opts))
    => res.out = "threw"

\* the mapping a reader finds in the front-matter block of a stringified text
Serialized(str) == parseMatter(toFile(StringInput(str)), NoOptions).file.data

\* the last step stringified a record whose data is a mapping, with data
\* supplied by the caller, and returned a text
MergeCall ==
  /\ res.op = "stringifyFile" /\ res.out = "returned"
  /\ res.arg # << >>
  /\ res.prev.kind = "map"

\* C12: the text written carries { ...record.data, ...data }: every key of the
\* caller's data is serialized with the caller's value, every key only the
\* record has is serialized with the record's value, and no other key is.
C12_ExtraDataWins ==
  MergeCall
    => LET out == Serialized(res.str)
           extra == res.arg[1]
       IN  /\ Keys(out) = Keys(res.prev) \cup Keys(extra)
           /\ \A k \in Keys(extra) : Prop(out, k) = Prop(extra, k)
           /\ \A k \in Keys(res.prev) \ Keys(extra) : Prop(out, k) = Prop(res.prev, k)

\* the record has "a" and "b", the caller's data has "a" with another value;
\* the text written has the caller's "a" and the record's "b"
C12_Witness ==
  /\ MergeCall
  /\ Keys(res.prev) = {<<"a">>, <<"b">>}
  /\ Prop(res.prev, <<"a">>) # Prop(res.arg[1], <<"a">>)
  /\ Prop(Serialized(res.str), <<"a">>) = <<VStr(<<"z">>)>>
  /\ Prop(Serialized(res.str), <<"b">>) = Prop(res.prev, <<"b">>)

-----------------------------------------------------------------------------
(* SpecInput: matter() on every kind of input                              *)

MaxInputToks == 3

InputPieces == {Dashes, <<NL>>, <<"a", ":">>}

InputTexts == TextsOver(InputPieces, MaxInputToks)

\* the text as a string, a buffer or an object, and the inputs without text
AnyInputOf(t) ==
  {StringInput(t), BufferInput(t), ObjectInput(t, SepData),
   NullInput, EmptyObjectInput, NumberInput}

InitInput ==
  /\ text \in InputTexts
  /\ cache = EmptyCache
  /\ res = NoCall
  /\ seen = {}

NextInput ==
  \E input \in AnyInputOf(text), options \in {NoOptions, Options(Undef, << >>, ExUndef, Undef)} :
    Extract(input, options)

SpecInput == InitInput /\ [][NextInput]_vars

\* the input is null or absent, or is neither text, nor a byte buffer, nor an
\* object bearing content
NoTextInput(input) == input \in {NullInput, EmptyObjectInput, NumberInput}

\* C13 (as claimed): matter() throws when the input is null or absent or has
\* no text representation; it never returns a record for such an input.
C13_InputCheck ==
  (res.op = "extract" /\ NoTextInput(res.input)) => res.out = "threw"

-----------------------------------------------------------------------------
(* SpecEngine: getEngine on the spellings of a name                        *)

\* getEngine(text, defaults(options)): the engine is kept in res.arg
LookedUp(options, engine) ==
  /\ res' = [NoCall EXCEPT !.op = "getEngine", !.opts = options, !.str = text,
                            !.out = IF engine = << >> THEN "threw" ELSE "returned",
                            !.arg = engine]
  /\ UNCHANGED <<text, cache, seen>>

Lookup(options) == LookedUp(options, getEngine(text, defaults(options)))

UpperChar(c) ==
  CASE c = "j" -> "J" [] c = "s" -> "S" [] c = "o" -> "O" [] c = "n" -> "N"
    [] c = "y" -> "Y" [] c = "a" -> "A" [] c = "m" -> "M" [] c = "l" -> "L"
    [] c = "v" -> "V" [] c = "c" -> "C" [] c = "r" -> "R" [] c = "i" -> "I"
    [] c = "p" -> "P" [] c = "t" -> "T"
    [] OTHER -> c

\* every spelling of a name in upper and lower case
CaseVariants(name) ==
  {[i \in 1..Len(name) |-> IF i \in S THEN UpperChar(name[i]) ELSE name[i]] :
     S \in SUBSET (1..Len(name))}

\* the spellings of the built-in names and aliases, of a name a caller may
\* register, and two names nobody registers
EngineNames ==
  UNION {CaseVariants(n) : n \in {Json, Yaml, Yml, Js, Javascript, Toml}}
    \cup {<<"x">>, << >>}

EngineOptions ==
  {Options(Undef, << >>, ExUndef, Undef),
   [Options(Undef, << >>, ExUndef, Undef) EXCEPT !.engines = TomlEngines]}

InitEngine ==
  /\ text \in EngineNames
  /\ cache = EmptyCache
  /\ res = NoCall
  /\ seen = {}

NextEngine == \E options \in EngineOptions : Lookup(options)

SpecEngine == InitEngine /\ [][NextEngine]_vars

\* the name under which a spelling is looked up when names are matched
\* without regard to case and then through the alias table
Canonical(name, engines) ==
  LET lower == toLowerCase(name)
  IN  IF lower \in DOMAIN engines THEN lower
      ELSE IF lower \in {Js, Javascript} THEN Javascript
      ELSE IF lower \in {Yaml, Yml} THEN Yaml
      ELSE lower

\* C14 (as claimed): getEngine(name) matches name without regard to case and
\* then through the alias table: every spelling of a registered name or alias
\* gives that engine, and the call throws exactly when neither is registered.
C14_CaseInsensitive ==
  res.op = "getEngine"
    => LET engines == defaults(res.opts).engines
           canon == Canonical(res.str, engines)
       IN  IF canon \in DOMAIN engines
           THEN res.out = "returned" /\ res.arg = <<engines[canon]>>
           ELSE res.out = "threw"

-----------------------------------------------------------------------------
(* Claims on the block parseMatter carves out                              *)

\* C15 (as claimed): when the text starts with the open delimiter and the
\* next character is the delimiter's last character, matter() extracts no
\* front matter: data is {}, content is the input, matter is "", isEmpty is
\* false, and no error is thrown.
C15_CollisionGuard ==
  (res.op = "extract" /\ Collides(res.input, res.opts))
    => /\ res.out = "returned"
       /\ DataEq(res.file.data, EmptyMap)
       /\ res.file.content = res.input.content
       /\ res.file.matter = Some(<< >>)
       /\ ~res.file.isEmpty


\* end (exclusive) of a line made of optional white space and a '#', with or
\* without text after it, that starts at p; -1 when there is none
CommentLineEnd(s, p) ==
  LET bol == p = 0 \/ IsLineTerminator(s[p])
      h   == p + SpaceRun(s, p)
  IN  IF bol /\ h < Len(s) /\ s[h + 1] = "#" THEN h + 1 + NonNLRun(s, h + 1) ELSE -1

\* the block with every such line removed
RECURSIVE StripLinesFrom(_, _)
StripLinesFrom(s, p) ==
  IF p >= Len(s) THEN << >>
  ELSE LET e == CommentLineEnd(s, p)
       IN  IF e # -1 THEN StripLinesFrom(s, e)
           ELSE <<s[p + 1]>> \o StripLinesFrom(s, p + 1)

\* C16 (as claimed): when the raw block is empty once every line of optional
\* white space and '#', with or without text after the '#', is removed and the
\* rest trimmed, matter() sets isEmpty, data {} and empty = the original
\* content, and parse is not invoked; otherwise the call ends as parse on the
\* unstripped block ends.
C16_CommentsAndEmptiness ==
  (res.op = "extract" /\ HasFrontMatter(res.input, res.opts))
    => IF Trim(StripLinesFrom(Get(res.file.matter), 0)) = << >>
       THEN /\ res.out = "returned"
            /\ res.file.isEmpty
            /\ DataEq(res.file.data, EmptyMap)
            /\ res.file.empty = Some(stripBom(res.input.content))
       ELSE /\ ParsedWith(Get(res.file.language))
            /\ res.out = "returned" => ~res.file.isEmpty


\* what follows the open delimiter in the text of the input
Body(input, options) ==
  SliceFrom(toFile(input).content, Len(OpenDelimiterOf(options)))

\* where the block ends in the body: at the first line feed followed by the
\* close delimiter, or at the end of the text
BlockEnd(input, options) ==
  LET body == Body(input, options)
      found == IndexOf(body, <<NL>> \o defaults(options).delimiters[2])
  IN  IF found = -1 THEN Len(body) ELSE found

\* the text of the inline tag that parseMatter removes, "" without a tag
TagRaw(input, options) ==
  LET lang == matterLanguage(Body(input, options), defaults(options))
  IN  IF lang.name # << >> THEN lang.raw ELSE << >>

\* C17 (as claimed): for a record with front matter, matter is the exact text
\* between the open and the close delimiter, the inline tag's line included;
\* it is "" when there is no front matter.
C17_RawMatterWithTag ==
  (res.op = "extract" /\ res.out = "returned")
    => res.file.matter =
         IF HasFrontMatter(res.input, res.opts)
         THEN Some(Slice(Body(res.input, res.opts), 0, BlockEnd(res.input, res.opts)))
         ELSE Some(<< >>)

\* C17 (amended): for a record with front matter that the call computed,
\* matter is the text between the end of the inline tag (the open delimiter
\* when there is no tag) and the close delimiter: the tag is not part of it.
\* It is "" when there is no front matter, and a record served from the cache
\* has no matter property.
C17_RawMatterAfterTag ==
  (res.op = "extract" /\ res.out = "returned")
    => res.file.matter =
         IF res.hit THEN Undef
         ELSE IF HasFrontMatter(res.input, res.opts)
         THEN Some(Slice(Body(res.input, res.opts),
                         Len(TagRaw(res.input, res.opts)),
                         BlockEnd(res.input, res.opts)))
         ELSE Some(<< >>)

\* a block under the inline tag yaml was parsed into a mapping; matter is the
\* block, without the tag that stands between it and the open delimiter
C17_Witness ==
  /\ res.op = "extract" /\ res.out = "returned" /\ ~res.hit
  /\ HasFrontMatter(res.input, res.opts)
  /\ TagRaw(res.input, res.opts) = Yaml
  /\ res.file.data.ents # << >>
  /\ Get(res.file.matter) # << >>
  /\ Yaml \o Get(res.file.matter)
       = Slice(Body(res.input, res.opts), 0, BlockEnd(res.input, res.opts))

-----------------------------------------------------------------------------
(* SpecMatter: matter() and matter.language() under several delimiters     *)

\* matter.language(text, options): name is kept in res.str, raw in res.arg
Detected(options, lang) ==
  /\ res' = [NoCall EXCEPT !.op = "language", !.input = StringInput(text),
                            !.opts = options, !.out = "returned",
                            !.str = lang.name, !.arg = lang.raw]
  /\ UNCHANGED <<text, cache, seen>>

DetectLanguage(options) == Detected(options, matterLanguage(text, defaults(options)))

MaxMatterToks == 4

Tildes == <<"~", "~", "~">>

MatterPieces == {Dashes, Tildes, <<NL>>, <<CR>>, Json, <<"a", ":">>, <<" ">>}

MatterTexts == TextsOver(MatterPieces, MaxMatterToks)

\* no options, the default delimiters, one delimiter for both sides, a pair
MatterOptions ==
  {NoOptions,
   Options(Undef, << >>, ExUndef, Undef),
   Options(Undef, <<Tildes>>, ExUndef, Undef),
   Options(Undef, <<Dashes, Tildes>>, ExUndef, Undef)}

InitMatter ==
  /\ text \in MatterTexts
  /\ cache = EmptyCache
  /\ res = NoCall
  /\ seen = {}

NextMatter ==
  \/ \E options \in MatterOptions : Extract(StringInput(text), options)
  \/ \E options \in MatterOptions : DetectLanguage(options)

SpecMatter == InitMatter /\ [][NextMatter]_vars

\* the text between the open delimiter and the first line break (LF or CRLF),
\* the whole remainder when the text has no line break
TagLine(input, options) ==
  LET body == Body(input, options)
      brk == SearchLineBreak(body)
  IN  IF brk = -1 THEN body ELSE Slice(body, 0, brk)

\* C18 (as claimed): for a text that starts with the open delimiter,
\* matter.language returns as raw the text between the delimiter and the
\* first line break, the whole remainder when there is no line break, and as
\* name raw trimmed; matter() gives the record the language of the same tag.
C18_InlineTagSniff ==
  /\ (res.op = "language"
        /\ matterTest(res.input.content, defaults(res.opts)))
       => /\ res.arg = TagLine(res.input, res.opts)
          /\ res.str = Trim(TagLine(res.input, res.opts))
  /\ (res.op = "extract" /\ res.out = "returned" /\ ~res.hit
        /\ HasFrontMatter(res.input, res.opts)
        /\ Trim(TagLine(res.input, res.opts)) # << >>)
       => res.file.language = Some(Trim(TagLine(res.input, res.opts)))


\* what a call leaves between the close delimiter and content
Dropped == {<< >>, <<CR>>, <<NL>>, <<CR, NL>>}

\* C19 (as claimed): for every input with front matter, the text without its
\* byte-order mark is open ++ tag ++ matter ++ "\n" ++ close ++ X ++ content
\* with X one of "", "\r", "\n", "\r\n" when the close delimiter is found, and
\* open ++ tag ++ matter with content "" when it is not.
C19_Partition ==
  (res.op = "extract" /\ res.out = "returned" /\ HasFrontMatter(res.input, res.opts))
    => LET open == OpenDelimiterOf(res.opts)
           close == defaults(res.opts).delimiters[2]
           tag == TagRaw(res.input, res.opts)
           body == Body(res.input, res.opts)
           found == IndexOf(body, <<NL>> \o close) # -1
       IN  /\ IsDef(res.file.matter)
           /\ IF found
              THEN \E X \in Dropped :
                     stripBom(res.input.content)
                       = open \o tag \o Get(res.file.matter) \o <<NL>> \o close
                           \o X \o res.file.content
              ELSE /\ stripBom(res.input.content) = open \o tag \o Get(res.file.matter)
                   /\ res.file.content = << >>

-----------------------------------------------------------------------------
(* The record a cache hit returns                                          *)

\* C20 (as claimed): a call matter(t) without options that is served from the
\* cache returns a record whose content, excerpt, language, matter, isEmpty
\* and orig are those of the record the first call computed and left in the
\* cache, and which still has its stringify method.
C20_CachedRecordComplete ==
  (PlainCall /\ res.hit)
    => LET first == cache[res.input.content]
       IN  /\ res.file.content = first.content
           /\ res.file.excerpt = first.excerpt
           /\ res.file.language = first.language
           /\ res.file.matter = first.matter
           /\ res.file.isEmpty = first.isEmpty
           /\ res.file.orig = first.orig
           /\ res.file.stringify

=============================================================================
